---- MODULE Spec2Model ----
(***************************************************************************)
(* Truth-Lense backend: the scoring engine of backend/logic.py             *)
(* (check_phishing, analyze_reviews) and the orchestrator of               *)
(* backend/main.py (analyze_product).                                      *)
(*                                                                         *)
(* Strings that the code inspects character by character (URLs, domains)   *)
(* are sequences of one-character strings.  Review texts are TLA+ strings: *)
(* the code only compares them for equality and takes their length.        *)
(*                                                                         *)
(* Numbers: the code computes in binary floating point.  The model         *)
(* computes the same expressions exactly, as integer numerators over a     *)
(* stated denominator: a polarity p is the integer 10*p (tenths), the sum  *)
(* of the polarities is S, the sum of the ratings is T, the number of      *)
(* reviews is n, and den = n (or 1 when n = 0, where the code substitutes  *)
(* 0.0 for the means).  Python's round() is round-half-to-even.            *)
(* Where an exact value lies on a tie (x.5) the floating-point value may   *)
(* fall just beside it, so a returned score can differ from the model's by *)
(* one at exactly those points; no property below depends on the           *)
(* direction in which a tie is rounded.                                    *)
(***************************************************************************)
EXTENDS Integers, Sequences, FiniteSets, TLC

VARIABLES
    pc,              \* position of the one request being served
    url,             \* the url argument of check_phishing / payload.url
    phishing_status, \* check_phishing's return value ("none" before the call)
    reviews_data,    \* analyze_reviews' argument: sequence of [text, rating]
    texts,           \* logic.py:93
    ratings,         \* logic.py:94
    hf_sentiment,    \* process-wide: TRUE iff the DistilBERT pipeline loaded
    gemini_ready,    \* process-wide: genai imported and GEMINI_API_KEY set
    results,         \* what hf_sentiment(texts) returned
    polarities,      \* logic.py:110, entries [v |-> tenths, src |-> "hf"|"blob"|"default"]
    gemini_reply,    \* logic.py:180, what generate_content answered
    gemini_output,   \* logic.py:145
    calls,           \* how often each collaborator was invoked in this request
    sig,             \* the signals and terms computed by step 5 of analyze_reviews
    result,          \* analyze_reviews' return value
    response         \* analyze_product's AnalysisResponse

vars == <<pc, url, phishing_status, reviews_data, texts, ratings, hf_sentiment,
          gemini_ready, results, polarities, gemini_reply, gemini_output, calls, sig,
          result, response>>

----------------------------------------------------------------------------
(* Sequence helpers *)

RECURSIVE Find(_, _, _)
\* str.find(c, start): the first index >= start holding c, 0 when there is none
\* (indices are 1-based here).
Find(s, c, start) ==
    IF start > Len(s) THEN 0
    ELSE IF s[start] = c THEN start
    ELSE Find(s, c, start + 1)

Contains(s, c) == Find(s, c, 1) # 0

RECURSIVE Split(_, _)
\* str.split(sep) for a one-character separator: always at least one part.
Split(s, sep) ==
    LET i == Find(s, sep, 1)
    IN  IF i = 0 THEN <<s>>
        ELSE <<SubSeq(s, 1, i - 1)>> \o Split(SubSeq(s, i + 1, Len(s)), sep)

RECURSIVE LStrip(_, _)
\* str.lstrip(chars)
LStrip(s, chars) ==
    IF s # <<>> /\ s[1] \in chars THEN LStrip(Tail(s), chars) ELSE s

UpperChars ==
    <<"A","B","C","D","E","F","G","H","I","J","K","L","M",
      "N","O","P","Q","R","S","T","U","V","W","X","Y","Z">>

LowerChars ==
    <<"a","b","c","d","e","f","g","h","i","j","k","l","m",
      "n","o","p","q","r","s","t","u","v","w","x","y","z">>

Digits == {"0","1","2","3","4","5","6","7","8","9"}

Range(s) == { s[i] : i \in DOMAIN s }

LowerChar(c) ==
    IF \E i \in DOMAIN UpperChars : UpperChars[i] = c
    THEN LowerChars[CHOOSE i \in DOMAIN UpperChars : UpperChars[i] = c]
    ELSE c

\* str.lower()
Lower(s) == [i \in DOMAIN s |-> LowerChar(s[i])]

Min(a, b) == IF a <= b THEN a ELSE b

Max(a, b) == IF a >= b THEN a ELSE b

Abs(a) == IF a >= 0 THEN a ELSE -a

----------------------------------------------------------------------------
(* urllib.parse.urlparse, as far as check_phishing uses it: the netloc, or *)
(* a ValueError.                                                           *)

\* urllib.parse.scheme_chars
scheme_chars == Range(UpperChars) \cup Range(LowerChars) \cup Digits \cup {"+", "-", "."}

IsAlpha(c) == c \in Range(UpperChars) \cup Range(LowerChars)

\* urlsplit's scheme step: the url with a leading "<scheme>:" removed.
AfterScheme(u) ==
    LET i == Find(u, ":", 1)
    IN  IF i > 1 /\ IsAlpha(u[1]) /\ \A j \in 1..(i - 1) : u[j] \in scheme_chars
        THEN SubSeq(u, i + 1, Len(u))
        ELSE u

\* _splitnetloc(url, 2): from the third character to the first of "/?#".
SplitNetloc(u) ==
    LET ends == { Find(u, c, 3) : c \in {"/", "?", "#"} } \ {0}
        delim == IF ends = {} THEN Len(u) + 1
                 ELSE CHOOSE e \in ends : \A f \in ends : e <= f
    IN  SubSeq(u, 3, delim - 1)

\* [raised |-> TRUE] for the ValueError("Invalid IPv6 URL"), else the netloc.
urlparse(u0) ==
    LET u == AfterScheme(LStrip(u0, {" "}))
        hasNetloc == Len(u) >= 2 /\ u[1] = "/" /\ u[2] = "/"
        netloc == IF hasNetloc THEN SplitNetloc(u) ELSE <<>>
    IN  IF \/ (Contains(netloc, "[") /\ ~Contains(netloc, "]"))
           \/ (Contains(netloc, "]") /\ ~Contains(netloc, "["))
        THEN [raised |-> TRUE, netloc |-> <<>>]
        ELSE [raised |-> FALSE, netloc |-> netloc]

----------------------------------------------------------------------------
(* Levenshtein.distance: the classic dynamic programme, one row at a time. *)

RECURSIVE LevRow(_, _, _, _)
\* The row for character ch of a, given the previous row prev over b; acc
\* holds the cells of the new row computed so far (columns 0 .. Len(acc) - 1).
LevRow(ch, b, prev, acc) ==
    IF Len(acc) > Len(b) THEN acc
    ELSE LET j == Len(acc)
             sub == prev[j] + (IF ch = b[j] THEN 0 ELSE 1)
             del == prev[j + 1] + 1
             ins == acc[j] + 1
         IN  LevRow(ch, b, prev, Append(acc, Min(sub, Min(del, ins))))

RECURSIVE LevRows(_, _, _)
\* The last row: prev is the row for the first Head(prev) characters of a.
LevRows(a, b, prev) ==
    IF Head(prev) >= Len(a) THEN prev
    ELSE LevRows(a, b, LevRow(a[Head(prev) + 1], b, prev, <<Head(prev) + 1>>))

LevenshteinDistance(a, b) ==
    LevRows(a, b, [j \in 1..(Len(b) + 1) |-> j - 1])[Len(b) + 1]

----------------------------------------------------------------------------
(* check_phishing *)

WHITELIST_DOMAINS ==
    << <<"a","m","a","z","o","n",".","c","o","m">>,
       <<"f","l","i","p","k","a","r","t",".","c","o","m">>,
       <<"e","b","a","y",".","c","o","m">>,
       <<"w","a","l","m","a","r","t",".","c","o","m">>,
       <<"a","m","a","z","o","n",".","i","n">>,
       <<"m","e","e","s","h","o",".","c","o","m">> >>

\* netloc.lower(), then "remove port": everything before the first ":".
PhishDomain(netloc) ==
    LET d == Lower(netloc)
    IN  IF Contains(d, ":") THEN Split(d, ":")[1] ELSE d

\* ".".join(parts[-2:]) when there are at least two parts, else the domain.
BaseDomain(domain) ==
    LET parts == Split(domain, ".")
        k == Len(parts)
    IN  IF k >= 2 THEN parts[k - 1] \o <<".">> \o parts[k] ELSE domain

\* The edit-distance threshold of the typosquat test (logic.py:79).
TypoDistance == 2

IsTyposquat(base_domain) ==
    \E i \in DOMAIN WHITELIST_DOMAINS :
        LevenshteinDistance(base_domain, WHITELIST_DOMAINS[i]) <= TypoDistance

check_phishing(u) ==
    LET parsed == urlparse(u)
        domain == PhishDomain(parsed.netloc)
        base_domain == BaseDomain(domain)
    IN  IF parsed.raised THEN "Unknown"
        ELSE IF base_domain \in Range(WHITELIST_DOMAINS) \/ domain \in Range(WHITELIST_DOMAINS)
        THEN "Safe"
        ELSE IF IsTyposquat(base_domain) THEN "Phishing Warning"
        ELSE "Suspicious"

----------------------------------------------------------------------------
(* Exact arithmetic *)

RECURSIVE SumSeq(_)
SumSeq(s) == IF s = <<>> THEN 0 ELSE Head(s) + SumSeq(Tail(s))

\* Python's round(a / b) for b > 0: to the nearest integer, ties to even.
RoundHalfEven(a, b) ==
    LET q == a \div b
        r == a % b
    IN  IF 2 * r < b THEN q
        ELSE IF 2 * r > b THEN q + 1
        ELSE IF q % 2 = 0 THEN q ELSE q + 1

\* Clamp100 without the clamp.
Clamp100_Unclamped(x) == x

\* max(0, min(100, x))  (logic.py:254, logic.py:274)
Clamp100(x) == Max(0, Min(100, x))

\* The denominator of a mean: statistics.mean(xs) if xs else 0.0
Den(n) == IF n > 0 THEN n ELSE 1

----------------------------------------------------------------------------
(* analyze_reviews, step 2: the two sentiment estimators *)

\* Mapping of one DistilBERT result to a polarity (tenths); score is in tenths.
\* A result whose score is not a number makes float() raise.
HfPolarity(res) ==
    IF res.label = "POSITIVE" THEN 2 * res.score - 10 ELSE 10 - 2 * res.score

\* PolaritiesAfterHfError keeping the entries appended so far.
PolaritiesAfterHfError_Kept(partial) == partial

\* logic.py:124-125: what polarities becomes when the batch call or the mapping
\* of a result raises: the entries appended so far are dropped.
PolaritiesAfterHfError(partial) == <<>>

\* logic.py:128-133: TextBlob per text, 0.0 for a text whose estimate raises.
BlobPolarities(ts, oracle) ==
    [i \in DOMAIN ts |->
        IF oracle[ts[i]].ok THEN [v |-> oracle[ts[i]].v, src |-> "blob"]
        ELSE [v |-> 0, src |-> "default"]]

PolaritySum(pols) == SumSeq([i \in DOMAIN pols |-> pols[i].v])

----------------------------------------------------------------------------
(* analyze_reviews, step 4: the narrative generator's reply *)

JList(items) == [t |-> "list", v |-> items]

JStr(s) == [t |-> "str", v |-> <<s>>]

JAbsent == [t |-> "absent", v |-> <<>>]

TokFence == [t |-> "fence", doc |-> "-"]

TokWord == [t |-> "word", doc |-> "-"]

TokNl == [t |-> "nl", doc |-> "-"]

TokDoc(d) == [t |-> "doc", doc |-> d]

RECURSIVE RemoveOpeningFences(_)
\* re.sub(r"```[a-zA-Z]*\n", "", text): a fence, an optional word, a newline.
RemoveOpeningFences(s) ==
    IF s = <<>> THEN <<>>
    ELSE IF Len(s) >= 2 /\ s[1] = TokFence /\ s[2] = TokNl
         THEN RemoveOpeningFences(SubSeq(s, 3, Len(s)))
    ELSE IF Len(s) >= 3 /\ s[1] = TokFence /\ s[2] = TokWord /\ s[3] = TokNl
         THEN RemoveOpeningFences(SubSeq(s, 4, Len(s)))
    ELSE <<Head(s)>> \o RemoveOpeningFences(Tail(s))

\* re.sub(r"```", "", text)
RemoveFences(s) == SelectSeq(s, LAMBDA tok : tok # TokFence)

RECURSIVE Strip(_)
\* str.strip(): leading and trailing whitespace removed.
Strip(s) ==
    IF s # <<>> /\ s[1] = TokNl THEN Strip(Tail(s))
    ELSE IF s # <<>> /\ s[Len(s)] = TokNl THEN Strip(SubSeq(s, 1, Len(s) - 1))
    ELSE s

clean_json_string(text) == Strip(RemoveFences(RemoveOpeningFences(text)))

\* json.loads: the document when the text is exactly one JSON document.
JsonLoads(text) ==
    IF Len(text) = 1 /\ text[1].t = "doc" /\ text[1].doc # "garbage"
    THEN [raised |-> FALSE, doc |-> text[1].doc]
    ELSE [raised |-> TRUE, doc |-> "-"]

\* The JSON documents the generator may send, by name, and the value each
\* holds under a key.  "object_full" has the three keys with the right types,
\* "object_pros_only" lacks cons and verdict, "object_mistyped" holds a string
\* where a list is asked for, "array" is valid JSON that is no object.
JsonDocs == {"garbage", "array", "object_full", "object_pros_only", "object_mistyped"}

IsObject(doc) == doc \in {"object_full", "object_pros_only", "object_mistyped"}

DocValue(doc, key) ==
    CASE doc = "object_full" /\ key = "pros" -> JList(<<"sturdy">>)
      [] doc = "object_full" /\ key = "cons" -> JList(<<"pricey">>)
      [] doc = "object_full" /\ key = "verdict" -> JStr("Worth buying.")
      [] doc = "object_pros_only" /\ key = "pros" -> JList(<<"sturdy">>)
      [] doc = "object_mistyped" /\ key = "pros" -> JStr("sturdy")
      [] doc = "object_mistyped" /\ key = "cons" -> JList(<<"pricey">>)
      [] doc = "object_mistyped" /\ key = "verdict" -> JStr("Worth buying.")
      [] OTHER -> JAbsent

\* dict.get(key, default)
DictGet(doc, key, default) ==
    IF DocValue(doc, key) = JAbsent THEN default ELSE DocValue(doc, key)

\* logic.py:145-149
GeminiDefault ==
    [pros |-> JList(<<>>), cons |-> JList(<<>>), verdict |-> JStr("Analysis unavailable")]

\* logic.py:191-193: the except branch changes the verdict only.
GeminiFailed(out) ==
    [out EXCEPT !.verdict = JStr("AI Analysis failed (Statistical mode only).")]

\* logic.py:180-193 for one reply of generate_content: reply.raised, or reply.text.
GeminiOutput(reply) ==
    IF reply.raised THEN GeminiFailed(GeminiDefault)
    ELSE IF reply.text = <<>> THEN GeminiDefault
    ELSE LET parsed_result == JsonLoads(clean_json_string(reply.text))
         IN  IF parsed_result.raised \/ ~IsObject(parsed_result.doc)
             THEN GeminiFailed(GeminiDefault)
             ELSE [pros |-> DictGet(parsed_result.doc, "pros", JList(<<>>)),
                   cons |-> DictGet(parsed_result.doc, "cons", JList(<<>>)),
                   verdict |-> DictGet(parsed_result.doc, "verdict",
                                       JStr("No verdict provided."))]

----------------------------------------------------------------------------
(* analyze_reviews, step 5: signals and score.  n = len(texts), S = sum of   *)
(* the polarities in tenths, T = sum of the ratings, den = Den(n).          *)

\* logic.py:210-220
VolumeComponent(n) ==
    IF n = 0 THEN 20
    ELSE IF n < 5 THEN 45
    ELSE IF n < 20 THEN 70
    ELSE IF n < 50 THEN 85
    ELSE 92

\* logic.py:141-142: discrepancy * 10 * den
Discrepancy(n, S, T) == Abs(4 * T - 10 * Den(n) - S)

\* logic.py:223-227: score * 20 * den, with
\* sentiment_component = 5 (S + 10 den) / den and rating_component = 20 T / den.
BaseScore(n, S, T) ==
    45 * (S + 10 * Den(n))
    + (IF T > 0 THEN 140 * T ELSE 350 * Den(n))
    + 4 * Den(n) * VolumeComponent(n)

\* DuplicatesCount counting every review whose text occurs more than once.
DuplicatesCount_NonUnique(ts) ==
    Cardinality({ i \in DOMAIN ts : \E j \in DOMAIN ts : j # i /\ ts[j] = ts[i] })

\* logic.py:230-231
DuplicatesCount(ts) == Max(0, Len(ts) - Cardinality(Range(ts)))

\* logic.py:234
ShortCount(ts) == Cardinality({i \in DOMAIN ts : Len(ts[i]) < 30})

\* logic.py:237-240 with the test of logic.py:251: rating_std < 0.2, that is
\* 25 (n * sum r^2 - T^2) < n^2; rating_std is 0.0 for fewer than two ratings.
RatingStdBelowFifth(rs) ==
    LET n == Len(rs)
        T == SumSeq(rs)
        Q == SumSeq([i \in DOMAIN rs |-> rs[i] * rs[i]])
    IN  n <= 1 \/ 25 * (n * Q - T * T) < n * n

\* BotDiscrepancyTerm without the cap of 20.
BotDiscrepancyTerm_Uncapped(D, den) ==
    IF D > 6 * den THEN 5 * D - 30 * den ELSE 0

\* logic.py:248-249: the discrepancy term of bot_prob, times den.
BotDiscrepancyTerm(D, den) ==
    IF D > 6 * den THEN Min(20 * den, 5 * D - 30 * den) ELSE 0

\* logic.py:251-252: the uniform-high-ratings term of bot_prob, times den.
BotUniformTerm(rs) ==
    LET n == Len(rs)
    IN  IF n >= 20 /\ RatingStdBelowFifth(rs) /\ 10 * SumSeq(rs) > 47 * n
        THEN 10 * Den(n) ELSE 0

\* logic.py:242-252: bot_prob before rounding, times den.
BotProbRaw(ts, rs, D) ==
    60 * DuplicatesCount(ts) + 30 * ShortCount(ts)
    + BotDiscrepancyTerm(D, Den(Len(ts))) + BotUniformTerm(rs)

\* logic.py:254
BotProb(raw, den) == Clamp100(RoundHalfEven(raw, den))

\* DiscrepancyPenalty without its 0.5 threshold.
DiscrepancyPenalty_NoThreshold(D, den) == 60 * D

\* logic.py:257-258: the discrepancy penalty, times 20 den.
DiscrepancyPenalty(D, den) ==
    IF D > 5 * den THEN 60 * (D - 5 * den) ELSE 0

\* logic.py:261-262: times 20 den.
DuplicatePenalty(ts) ==
    IF DuplicatesCount(ts) > 0
    THEN 20 * Den(Len(ts)) * Min(DuplicatesCount(ts) * 4, 16) ELSE 0

\* logic.py:265-267: times 20 den.
ShortPenalty(ts) ==
    IF SumSeq([i \in DOMAIN ts |-> Len(ts[i])]) < 15 * Den(Len(ts))
    THEN 160 * Den(Len(ts)) ELSE 0

\* logic.py:270-271: times 20 den.
LowVolumePenalty(n) == IF n < 5 THEN 100 * Den(n) ELSE 0

\* logic.py:223-271: the score before clamping, times 20 den.
RawScore(ts, rs, S) ==
    LET n == Len(ts)
        T == SumSeq(rs)
    IN  BaseScore(n, S, T)
        - DiscrepancyPenalty(Discrepancy(n, S, T), Den(n))
        - DuplicatePenalty(ts) - ShortPenalty(ts) - LowVolumePenalty(n)

\* logic.py:274
FinalScore(raw, den) == Clamp100(RoundHalfEven(raw, 20 * den))

\* logic.py:277-282
SafetyLabel(final_score) ==
    IF final_score >= 80 THEN "Likely Authentic"
    ELSE IF final_score >= 50 THEN "Moderate Risk"
    ELSE "High Risk / Caution"

\* logic.py:286: round(avg_sentiment, 2), in hundredths
SentimentScore(n, S) == RoundHalfEven(10 * S, Den(n))

----------------------------------------------------------------------------
(* Inputs and collaborator answers *)

\* The longest pattern of distinct review records in a request.
MaxPattern == 2

\* The largest number of times the pattern is repeated in a request.
MaxRep == 25

\* A 2-character text and a 42-character text.
TextSet == {"ok", "Excellent build quality and fast delivery."}

\* Star ratings; 8 is outside the 0..5 scale (ReviewItem.rating is any float).
RatingSet == {0, 5, 8}

ReviewRecords == [text : TextSet, rating : RatingSet]

Repeat(p, r) == [i \in 1..(Len(p) * r) |-> p[((i - 1) % Len(p)) + 1]]

\* Requests: no review, or a pattern of records repeated 1, 10 or MaxRep times.
ReviewInputs ==
    {<<>>} \cup
    { Repeat(p, r) : p \in UNION { [1..k -> ReviewRecords] : k \in 1..MaxPattern },
                     r \in {1, 10, MaxRep} }

\* What the DistilBERT pipeline may answer for a text (score in tenths);
\* valid = FALSE is an answer whose score float() rejects.
HfAnswers ==
    { [label |-> "POSITIVE", score |-> 10, valid |-> TRUE],
      [label |-> "POSITIVE", score |-> 7, valid |-> TRUE],
      [label |-> "NEGATIVE", score |-> 10, valid |-> TRUE],
      [label |-> "NEGATIVE", score |-> 5, valid |-> FALSE] }

\* What TextBlob may answer for a text: a polarity in tenths, or it raises.
BlobAnswers ==
    { [ok |-> TRUE, v |-> 10], [ok |-> TRUE, v |-> 3], [ok |-> TRUE, v |-> -10],
      [ok |-> FALSE, v |-> 0] }

\* What generate_content may answer: it raises, or a text: empty, a bare
\* document, a fenced one, or a fenced one without the newline after the
\* language word.
GeminiReplies ==
    { [raised |-> TRUE, text |-> <<>>], [raised |-> FALSE, text |-> <<>>] }
    \cup { [raised |-> FALSE, text |-> <<TokDoc(d)>>] : d \in JsonDocs }
    \cup { [raised |-> FALSE,
            text |-> <<TokFence, TokWord, TokNl, TokDoc("object_full"), TokNl, TokFence>>],
           [raised |-> FALSE,
            text |-> <<TokFence, TokWord, TokDoc("object_full"), TokFence>>] }

\* URL prefixes: a scheme, an upper-case scheme, none.
Schemes ==
    { <<"h","t","t","p","s",":","/","/">>,
      <<"H","T","T","P",":","/","/">>,
      <<>> }

\* Userinfo parts: none, a user, a user and a password.
UserInfos ==
    { <<>>,
      <<"u","@">>,
      <<"a","m","a","z","o","n",".","c","o","m",":","x","@">> }

\* Hosts: whitelisted, near misses at distance 1, 2 and 3, unrelated, single-label.
Hosts ==
    { <<"w","w","w",".","a","m","a","z","o","n",".","c","o","m">>,
      <<"A","M","A","Z","O","N",".","C","O","M">>,
      <<"a","m","a","z","o","n",".","i","n">>,
      <<"a","m","a","z","0","n",".","c","o","m">>,
      <<"a","m","a","z","n",".","c","o">>,
      <<"a","m","a","z","o","n",".","n","e","t">>,
      <<"s","h","o","p",".","f","l","i","p","k","a","r","t",".","c","o","m">>,
      <<"t","o","t","a","l","l","y","-","r","a","n","d","o","m","-","s","h","o","p",".","b","i","z">>,
      <<"e","v","i","l",".","b","i","z">>,
      <<"l","o","c","a","l","h","o","s","t">> }

\* Ports: none, one.
Ports ==
    { <<>>,
      <<":","8","0","8","0">> }

\* Paths: none, one.
Paths ==
    { <<>>,
      <<"/","x">> }

\* The empty string, free text, a leading space, an unbalanced bracket, an empty host.
SpecialUrls ==
    { <<>>,
      <<"f","r","e","e"," ","t","e","x","t">>,
      <<" ","h","t","t","p","s",":","/","/","a","m","a","z","o","n",".","c","o","m">>,
      <<"h","t","t","p","s",":","/","/","[","a","m","a","z","o","n",".","c","o","m","/","x">>,
      <<"h","t","t","p","s",":","/","/">> }

UrlInputs ==
    { s \o ui \o h \o p \o t :
        s \in Schemes, ui \in UserInfos, h \in Hosts, p \in Ports, t \in Paths }
    \cup SpecialUrls

\* The listing URLs of the orchestrator's requests: a whitelisted and an unknown domain.
ProductUrls ==
    { <<"h","t","t","p","s",":","/","/","w","w","w",".","a","m","a","z","o","n",".","c","o","m","/","x">>,
      <<"h","t","t","p","s",":","/","/","t","o","t","a","l","l","y","-","r","a","n","d","o","m","-","s","h","o","p",".","b","i","z">> }

NoReply == [raised |-> FALSE, text |-> <<>>]

NoCalls == [hf |-> 0, blob |-> 0, gemini |-> 0]

NoSig == [computed |-> FALSE]

NoResult == [returned |-> FALSE]

NoResponse == [status |-> 0]

----------------------------------------------------------------------------
(* State machine: one request *)

Init ==
    /\ pc = "idle"
    /\ url = <<>>
    /\ phishing_status = "none"
    /\ reviews_data = <<>>
    /\ texts = <<>>
    /\ ratings = <<>>
    /\ hf_sentiment \in BOOLEAN
    /\ gemini_ready \in BOOLEAN
    /\ results = <<>>
    /\ polarities = <<>>
    /\ gemini_reply = NoReply
    /\ gemini_output = GeminiDefault
    /\ calls = NoCalls
    /\ sig = NoSig
    /\ result = NoResult
    /\ response = NoResponse

\* A direct call of the core entry point analyze_reviews(reviews_data).
CallAnalyzeReviews ==
    /\ pc = "idle"
    /\ \E rd \in ReviewInputs : reviews_data' = rd
    /\ pc' = "ar_entry"
    /\ UNCHANGED <<url, phishing_status, texts, ratings, hf_sentiment, gemini_ready,
                   results, polarities, gemini_reply, gemini_output, calls, sig, result,
                   response>>

\* IsEmptyInput without the test.
IsEmptyInput_Never(ts) == FALSE

\* logic.py:97: `if not texts`
IsEmptyInput(ts) == ts = <<>>

\* logic.py:98-106
EmptyResult ==
    [returned |-> TRUE, trust_score |-> 0, sentiment_score |-> 0, bot_probability |-> 0,
     safety_label |-> "Unknown", pros |-> JList(<<>>), cons |-> JList(<<>>),
     verdict |-> JStr("No reviews found to analyze.")]

\* logic.py:92-106: extract the vectors; the empty-input return.
AR_Extract ==
    /\ pc = "ar_entry"
    /\ texts' = [i \in DOMAIN reviews_data |-> reviews_data[i].text]
    /\ ratings' = [i \in DOMAIN reviews_data |-> reviews_data[i].rating]
    /\ IF IsEmptyInput(texts')
       THEN /\ result' = EmptyResult
            /\ pc' = "ar_return"
       ELSE /\ result' = result
            /\ pc' = "ar_sentiment"
    /\ UNCHANGED <<url, phishing_status, reviews_data, hf_sentiment, gemini_ready,
                   results, polarities, gemini_reply, gemini_output, calls, sig,
                   response>>

\* logic.py:112: the model is not loaded (or there is no text): nothing is called.
AR_HfSkip ==
    /\ pc = "ar_sentiment"
    /\ ~(hf_sentiment /\ texts # <<>>)
    /\ pc' = "ar_fallback"
    /\ UNCHANGED <<url, phishing_status, reviews_data, texts, ratings, hf_sentiment,
                   gemini_ready, results, polarities, gemini_reply, gemini_output,
                   calls, sig, result, response>>

\* logic.py:114, 124-125: the batch call raises.
AR_HfCallRaises ==
    /\ pc = "ar_sentiment"
    /\ hf_sentiment /\ texts # <<>>
    /\ calls' = [calls EXCEPT !.hf = 1]
    /\ polarities' = PolaritiesAfterHfError(polarities)
    /\ pc' = "ar_fallback"
    /\ UNCHANGED <<url, phishing_status, reviews_data, texts, ratings, hf_sentiment,
                   gemini_ready, results, gemini_reply, gemini_output, sig, result,
                   response>>

\* logic.py:114: the batch call returns one answer per text.
AR_HfCallReturns ==
    /\ pc = "ar_sentiment"
    /\ hf_sentiment /\ texts # <<>>
    /\ \E answer \in [Range(texts) -> HfAnswers] :
           results' = [i \in DOMAIN texts |-> answer[texts[i]]]
    /\ calls' = [calls EXCEPT !.hf = 1]
    /\ pc' = "ar_hf_loop"
    /\ UNCHANGED <<url, phishing_status, reviews_data, texts, ratings, hf_sentiment,
                   gemini_ready, polarities, gemini_reply, gemini_output, sig, result,
                   response>>

\* logic.py:115-123: one iteration of the mapping loop, for the next result.
AR_HfMapItem ==
    /\ pc = "ar_hf_loop"
    /\ Len(polarities) < Len(results)
    /\ results[Len(polarities) + 1].valid
    /\ polarities' = Append(polarities,
                            [v |-> HfPolarity(results[Len(polarities) + 1]), src |-> "hf"])
    /\ UNCHANGED <<pc, url, phishing_status, reviews_data, texts, ratings, hf_sentiment,
                   gemini_ready, results, gemini_reply, gemini_output, calls, sig,
                   result, response>>

\* logic.py:117, 124-125: mapping the next result raises.
AR_HfMapRaises ==
    /\ pc = "ar_hf_loop"
    /\ Len(polarities) < Len(results)
    /\ ~results[Len(polarities) + 1].valid
    /\ polarities' = PolaritiesAfterHfError(polarities)
    /\ results' = <<>>
    /\ pc' = "ar_fallback"
    /\ UNCHANGED <<url, phishing_status, reviews_data, texts, ratings, hf_sentiment,
                   gemini_ready, gemini_reply, gemini_output, calls, sig, result,
                   response>>

\* logic.py:115: the mapping loop ends.
AR_HfMapDone ==
    /\ pc = "ar_hf_loop"
    /\ Len(polarities) = Len(results)
    /\ results' = <<>>
    /\ pc' = "ar_fallback"
    /\ UNCHANGED <<url, phishing_status, reviews_data, texts, ratings, hf_sentiment,
                   gemini_ready, polarities, gemini_reply, gemini_output, calls, sig,
                   result, response>>

\* logic.py:127-133: `if not polarities`, TextBlob for every text.
AR_Fallback ==
    /\ pc = "ar_fallback"
    /\ polarities = <<>>
    /\ \E oracle \in [Range(texts) -> BlobAnswers] :
           polarities' = BlobPolarities(texts, oracle)
    /\ calls' = [calls EXCEPT !.blob = Len(texts)]
    /\ pc' = "ar_gemini"
    /\ UNCHANGED <<url, phishing_status, reviews_data, texts, ratings, hf_sentiment,
                   gemini_ready, results, gemini_reply, gemini_output, sig, result,
                   response>>

\* logic.py:127: the model's polarities stand.
AR_FallbackSkip ==
    /\ pc = "ar_fallback"
    /\ polarities # <<>>
    /\ pc' = "ar_gemini"
    /\ UNCHANGED <<url, phishing_status, reviews_data, texts, ratings, hf_sentiment,
                   gemini_ready, results, polarities, gemini_reply, gemini_output,
                   calls, sig, result, response>>

\* logic.py:145-151: the generator is not configured.
AR_GeminiSkip ==
    /\ pc = "ar_gemini"
    /\ ~gemini_ready
    /\ gemini_output' = GeminiDefault
    /\ pc' = "ar_score"
    /\ UNCHANGED <<url, phishing_status, reviews_data, texts, ratings, hf_sentiment,
                   gemini_ready, results, polarities, gemini_reply, calls, sig, result,
                   response>>

\* logic.py:145-193: the generator is asked and answers.
AR_Gemini ==
    /\ pc = "ar_gemini"
    /\ gemini_ready
    /\ \E reply \in GeminiReplies :
           /\ gemini_reply' = reply
           /\ gemini_output' = GeminiOutput(reply)
    /\ calls' = [calls EXCEPT !.gemini = 1]
    /\ pc' = "ar_score"
    /\ UNCHANGED <<url, phishing_status, reviews_data, texts, ratings, hf_sentiment,
                   gemini_ready, results, polarities, sig, result, response>>

\* logic.py:135-142, 203-274: the signals of one scoring pass.
Signals(ts, rs, pols) ==
    LET n == Len(ts)
        S == PolaritySum(pols)
        T == SumSeq(rs)
        D == Discrepancy(n, S, T)
    IN  [computed |-> TRUE, n |-> n, S |-> S, T |-> T, discrepancy |-> D,
         duplicates_count |-> DuplicatesCount(ts),
         bot_discrepancy_term |-> BotDiscrepancyTerm(D, Den(n)),
         discrepancy_penalty |-> DiscrepancyPenalty(D, Den(n)),
         bot_raw |-> BotProbRaw(ts, rs, D),
         score_raw |-> RawScore(ts, rs, S)]

\* logic.py:195-292: score, label and the returned record.
AR_Score ==
    /\ pc = "ar_score"
    /\ sig' = Signals(texts, ratings, polarities)
    /\ LET final_score == FinalScore(sig'.score_raw, Den(sig'.n))
       IN  result' = [returned |-> TRUE,
                      trust_score |-> final_score,
                      sentiment_score |-> SentimentScore(sig'.n, sig'.S),
                      bot_probability |-> BotProb(sig'.bot_raw, Den(sig'.n)),
                      safety_label |-> SafetyLabel(final_score),
                      pros |-> gemini_output.pros,
                      cons |-> gemini_output.cons,
                      verdict |-> gemini_output.verdict]
    /\ pc' = "ar_return"
    /\ UNCHANGED <<url, phishing_status, reviews_data, texts, ratings, hf_sentiment,
                   gemini_ready, results, polarities, gemini_reply, gemini_output,
                   calls, response>>

Next ==
    \/ CallAnalyzeReviews
    \/ AR_Extract
    \/ AR_HfSkip
    \/ AR_HfCallRaises
    \/ AR_HfCallReturns
    \/ AR_HfMapItem
    \/ AR_HfMapRaises
    \/ AR_HfMapDone
    \/ AR_Fallback
    \/ AR_FallbackSkip
    \/ AR_GeminiSkip
    \/ AR_Gemini
    \/ AR_Score

Spec == Init /\ [][Next]_vars

----------------------------------------------------------------------------
(* check_phishing as an entry point of its own *)

CallCheckPhishing ==
    /\ pc = "idle"
    /\ \E u \in UrlInputs : url' = u
    /\ pc' = "cp_entry"
    /\ UNCHANGED <<phishing_status, reviews_data, texts, ratings, hf_sentiment,
                   gemini_ready, results, polarities, gemini_reply, gemini_output,
                   calls, sig, result, response>>

\* logic.py:56-84
CP_Return ==
    /\ pc = "cp_entry"
    /\ phishing_status' = check_phishing(url)
    /\ pc' = "cp_return"
    /\ UNCHANGED <<url, reviews_data, texts, ratings, hf_sentiment, gemini_ready,
                   results, polarities, gemini_reply, gemini_output, calls, sig, result,
                   response>>

NextPhishing == CallCheckPhishing \/ CP_Return

SpecPhishing == Init /\ [][NextPhishing]_vars

----------------------------------------------------------------------------
(* analyze_product, the orchestrator of main.py *)

\* main.py:61-77, 92: the domain verdict, then the reviews as dicts.
CallAnalyzeProduct ==
    /\ pc = "idle"
    /\ \E u \in ProductUrls, rd \in ReviewInputs :
           /\ url' = u
           /\ reviews_data' = rd
           /\ phishing_status' = check_phishing(u)
           /\ pc' = IF rd = <<>> THEN "ap_site" ELSE "ar_entry"
    /\ UNCHANGED <<texts, ratings, hf_sentiment, gemini_ready, results, polarities,
                   gemini_reply, gemini_output, calls, sig, result, response>>

\* main.py:77-89: no review; the response is built from analyze_site_risk's
\* answer (a function main.py imports and logic.py does not define).
AP_SiteRisk ==
    /\ pc = "ap_site"
    /\ \E site_score \in {0, 55, 90} :
           response' = [status |-> 200, trust_score |-> site_score, sentiment_score |-> 0,
                        bot_probability |-> 0, safety_label |-> "Unknown",
                        pros |-> JList(<<>>), cons |-> JList(<<>>), verdict |-> JStr(""),
                        phishing_status |-> phishing_status]
    /\ pc' = "ap_done"
    /\ UNCHANGED <<url, phishing_status, reviews_data, texts, ratings, hf_sentiment,
                   gemini_ready, results, polarities, gemini_reply, gemini_output,
                   calls, sig, result>>

\* main.py:99-106: the safe-domain calibration of the trust score.
CalibratedTrust(domain_status, base_trust, sentiment_score, bot_prob, review_count) ==
    IF domain_status = "Safe"
    THEN IF review_count >= 50 /\ sentiment_score > 40 /\ bot_prob <= 60
         THEN Max(base_trust, 80)
         ELSE IF review_count >= 20 /\ sentiment_score > 30 /\ bot_prob <= 70
         THEN Max(base_trust, 70)
         ELSE base_trust
    ELSE base_trust

\* AnalysisResponse (main.py:38-46): pros and cons are lists of strings, verdict a string.
ResponseValidates(r) == r.pros.t = "list" /\ r.cons.t = "list" /\ r.verdict.t = "str"

\* main.py:92-117
AP_Respond ==
    /\ pc = "ar_return"
    /\ ResponseValidates(result)
    /\ response' = [status |-> 200,
                    trust_score |-> CalibratedTrust(phishing_status, result.trust_score,
                                                    result.sentiment_score,
                                                    result.bot_probability,
                                                    Len(reviews_data)),
                    sentiment_score |-> result.sentiment_score,
                    bot_probability |-> result.bot_probability,
                    safety_label |-> result.safety_label,
                    pros |-> result.pros, cons |-> result.cons, verdict |-> result.verdict,
                    phishing_status |-> phishing_status]
    /\ pc' = "ap_done"
    /\ UNCHANGED <<url, phishing_status, reviews_data, texts, ratings, hf_sentiment,
                   gemini_ready, results, polarities, gemini_reply, gemini_output,
                   calls, sig, result>>

\* main.py:108-121: the response model rejects the record; HTTP 500.
AP_ServerError ==
    /\ pc = "ar_return"
    /\ ~ResponseValidates(result)
    /\ response' = [status |-> 500]
    /\ pc' = "ap_done"
    /\ UNCHANGED <<url, phishing_status, reviews_data, texts, ratings, hf_sentiment,
                   gemini_ready, results, polarities, gemini_reply, gemini_output,
                   calls, sig, result>>

NextProduct ==
    \/ CallAnalyzeProduct
    \/ AP_SiteRisk
    \/ AR_Extract
    \/ AR_HfSkip
    \/ AR_HfCallRaises
    \/ AR_HfCallReturns
    \/ AR_HfMapItem
    \/ AR_HfMapRaises
    \/ AR_HfMapDone
    \/ AR_Fallback
    \/ AR_FallbackSkip
    \/ AR_GeminiSkip
    \/ AR_Gemini
    \/ AR_Score
    \/ AP_Respond
    \/ AP_ServerError

SpecProduct == Init /\ [][NextProduct]_vars

----------------------------------------------------------------------------
(* Properties *)

Scored == pc = "ar_return" /\ sig # NoSig

\* C1: for every non-empty review set the returned trust_score and
\* bot_probability are integers in [0, 100], also when the penalties push the
\* raw score below 0 or the terms push the raw bot probability above 100.
C1_ClampInvariant ==
    (pc = "ar_return" /\ texts # <<>>) =>
        /\ result.trust_score \in 0..100
        /\ result.bot_probability \in 0..100

\* C1 witness: a scoring whose raw score is negative and whose raw bot
\* probability exceeds 100, returned as 0 and 100.
C1_Witness ==
    /\ Scored
    /\ sig.score_raw < 0
    /\ sig.bot_raw > 100 * Den(sig.n)
    /\ result.trust_score = 0
    /\ result.bot_probability = 100

\* The trust score analyze_reviews returns for the texts and ratings of this
\* request when the polarities sum to S2.
TrustScoreAt(S2) == FinalScore(RawScore(texts, ratings, S2), Den(Len(texts)))

\* Mean sentiments on the grid of tenths, as polarity sums for n reviews.
SentimentGrid(n) == { p * n : p \in -10..10 }

\* C2 as claimed: with the texts and ratings fixed, a larger avg_sentiment
\* never gives a lower trust_score.
C2_MonotoneInSentiment ==
    Scored =>
        \A S2 \in SentimentGrid(sig.n) :
            S2 >= sig.S => TrustScoreAt(S2) >= result.trust_score

\* C2 amended: with the texts and ratings fixed, a larger avg_sentiment never
\* gives a lower trust_score as long as the larger avg_sentiment is at most
\* normalized_rating + 0.5 (10 n avg_sentiment <= 4 T - 5 n), the point from
\* which the discrepancy penalty grows with avg_sentiment.
C2_MonotoneBelowPenalty ==
    Scored =>
        \A S2 \in SentimentGrid(sig.n) :
            (S2 >= sig.S /\ S2 <= 4 * sig.T - 5 * sig.n)
                => TrustScoreAt(S2) >= result.trust_score

\* C2 witness: a scoring for which a strictly larger avg_sentiment inside that
\* range gives a strictly larger trust_score.
C2_Witness ==
    /\ Scored
    /\ \E S2 \in SentimentGrid(sig.n) :
           /\ S2 > sig.S
           /\ S2 <= 4 * sig.T - 5 * sig.n
           /\ TrustScoreAt(S2) > result.trust_score

\* C3 as claimed: a URL from which no network location can be extracted (or
\* whose parse fails) yields "Unknown".
C3_UnparsableIsUnknown ==
    (pc = "cp_return" /\ (urlparse(url).raised \/ urlparse(url).netloc = <<>>))
        => phishing_status = "Unknown"

RECURSIVE FindLast(_, _, _)
\* The last index of c in s at or before i, 0 when there is none.
FindLast(s, c, i) ==
    IF i = 0 THEN 0 ELSE IF s[i] = c THEN i ELSE FindLast(s, c, i - 1)

\* The host of a network location: lower-cased, without the userinfo that
\* ends at the last "@" and without the port that starts at the next ":".
HostOf(netloc) ==
    LET d == Lower(netloc)
        hostport == SubSeq(d, FindLast(d, "@", Len(d)) + 1, Len(d))
        colon == Find(hostport, ":", 1)
    IN  IF colon = 0 THEN hostport ELSE SubSeq(hostport, 1, colon - 1)

\* The registrable domain: the last two dot-separated labels of the host.
RegistrableDomain(host) ==
    LET labels == Split(host, ".")
        k == Len(labels)
    IN  IF k >= 2 THEN labels[k - 1] \o <<".">> \o labels[k] ELSE host

\* The verdict the priority order of C4 gives for a host.
VerdictFor(host) ==
    IF RegistrableDomain(host) \in Range(WHITELIST_DOMAINS) \/ host \in Range(WHITELIST_DOMAINS)
    THEN "Safe"
    ELSE IF \E i \in DOMAIN WHITELIST_DOMAINS :
                LevenshteinDistance(RegistrableDomain(host), WHITELIST_DOMAINS[i]) <= 2
    THEN "Phishing Warning"
    ELSE "Suspicious"

\* C4 as claimed: for every URL with a parsable host the verdict is "Safe" iff
\* the registrable domain or the host is whitelisted, else "Phishing Warning"
\* iff the registrable domain is within edit distance 2 of a whitelist entry,
\* else "Suspicious".
C4_PriorityOrder ==
    (pc = "cp_return" /\ ~urlparse(url).raised /\ HostOf(urlparse(url).netloc) # <<>>)
        => phishing_status = VerdictFor(HostOf(urlparse(url).netloc))

\* C5: a call with no review returns the fixed zero/"Unknown" record, and no
\* estimator and no narrative generator is invoked on that path: the call goes
\* from its entry straight to its return.
C5_EmptyShortCircuit ==
    (pc # "idle" /\ reviews_data = <<>>) =>
        /\ pc \in {"ar_entry", "ar_return"}
        /\ calls = [hf |-> 0, blob |-> 0, gemini |-> 0]
        /\ pc = "ar_return" =>
               /\ result.trust_score = 0
               /\ result.sentiment_score = 0
               /\ result.bot_probability = 0
               /\ result.safety_label = "Unknown"
               /\ result.pros = JList(<<>>)
               /\ result.cons = JList(<<>>)
               /\ result.verdict = JStr("No reviews found to analyze.")

\* C5 witness: the call with no review has returned.
C5_Witness == pc = "ar_return" /\ reviews_data = <<>> /\ result # NoResult

\* C6 as claimed: the duplicate count behind duplicate_fraction is the number
\* of reviews whose text is also the text of another review of the set.
C6_DuplicatesAreNonUnique ==
    Scored =>
        sig.duplicates_count =
            Cardinality({ i \in DOMAIN texts :
                            \E j \in DOMAIN texts : j # i /\ texts[j] = texts[i] })

\* C6 amended: the duplicate count behind duplicate_fraction is the number of
\* reviews whose text already occurred earlier in the sequence (review_count
\* minus the number of distinct texts), and the bot-probability term is
\* 60 times that count over review_count.
C6_DuplicatesAreRepeats ==
    Scored =>
        LET repeats == Cardinality({ i \in DOMAIN texts :
                                       \E j \in DOMAIN texts : j < i /\ texts[j] = texts[i] })
        IN  /\ sig.duplicates_count = repeats
            /\ sig.bot_raw - 30 * ShortCount(texts) - sig.bot_discrepancy_term
                   - BotUniformTerm(ratings) = 60 * repeats

\* C6 witness: a scored set in which a text occurs three times or more.
C6_Witness ==
    /\ Scored
    /\ sig.duplicates_count >= 2
    /\ \E i, j, k \in DOMAIN texts :
           i < j /\ j < k /\ texts[i] = texts[j] /\ texts[j] = texts[k]

\* Whether the generator's part of the call failed: not configured, raised,
\* empty text, text that is no JSON, or JSON that is not an object holding a
\* list of strings as pros and as cons and a string as verdict.
NarrativeFailed ==
    \/ calls.gemini = 0
    \/ gemini_reply.raised
    \/ gemini_reply.text = <<>>
    \/ LET parsed == JsonLoads(clean_json_string(gemini_reply.text))
       IN  \/ parsed.raised
           \/ DocValue(parsed.doc, "pros").t # "list"
           \/ DocValue(parsed.doc, "cons").t # "list"
           \/ DocValue(parsed.doc, "verdict").t # "str"

PlaceholderVerdicts ==
    { JStr("Analysis unavailable"), JStr("AI Analysis failed (Statistical mode only)."),
      JStr("No verdict provided.") }

\* C7 as claimed: whatever the generator does, the call returns the scores that
\* the texts, ratings and polarities alone determine, and in every failure case
\* pros and cons are empty and the verdict is a placeholder.
C7_NarrativeDegrades ==
    (pc = "ar_return" /\ texts # <<>>) =>
        /\ result.trust_score = TrustScoreAt(PolaritySum(polarities))
        /\ result.safety_label = SafetyLabel(result.trust_score)
        /\ NarrativeFailed =>
               /\ result.pros = JList(<<>>)
               /\ result.cons = JList(<<>>)
               /\ result.verdict \in PlaceholderVerdicts

FromModel(pols) == \A i \in DOMAIN pols : pols[i].src = "hf"

FromFallback(pols) == \A i \in DOMAIN pols : pols[i].src \in {"blob", "default"}

\* C8: the polarities that are averaged come from one estimator only, one per
\* review in input order: while the model's results are mapped the list holds
\* model values only; once the estimator step is over the list is either the
\* model's, complete, or the fallback's, complete (0.0 where the lexical
\* estimate failed); when the model is unavailable or failed, nothing of it
\* is kept.
C8_OnePathOnly ==
    /\ pc = "ar_hf_loop" => FromModel(polarities)
    /\ pc = "ar_fallback" =>
           \/ polarities = <<>>
           \/ Len(polarities) = Len(texts) /\ FromModel(polarities)
    /\ (pc \in {"ar_gemini", "ar_score"} \/ Scored) =>
           /\ Len(polarities) = Len(texts)
           /\ FromModel(polarities) \/ FromFallback(polarities)
           /\ FromFallback(polarities) =>
                  /\ calls.blob = Len(texts)
                  /\ \A i \in DOMAIN polarities :
                         polarities[i].src = "default" => polarities[i].v = 0
           /\ ~hf_sentiment => FromFallback(polarities)
           /\ \A i, j \in DOMAIN texts :
                  texts[i] = texts[j] => polarities[i] = polarities[j]

\* C8 witness: the model was called, failed, and the averaged list is the
\* fallback's, for a set of at least two reviews.
C8_Witness ==
    /\ pc = "ar_gemini"
    /\ calls.hf = 1
    /\ Len(texts) >= 2
    /\ Len(polarities) = Len(texts)
    /\ FromFallback(polarities)

RatingsInScale == \A i \in DOMAIN ratings : ratings[i] \in 0..5

\* C9: with ratings in [0, 5] and polarities in [-1, 1], discrepancy =
\* |(avg_rating - 2.5) / 2.5 - avg_sentiment| lies in [0, 2]; the term added to
\* bot_probability is 0 up to 0.6 and min(20, (discrepancy - 0.6) * 50) above,
\* hence at most 20; the penalty on the score is 0 up to 0.5 and
\* (discrepancy - 0.5) * 30 above, hence at most 45; at avg_rating = 5.0 and
\* avg_sentiment = -1.0 the discrepancy is 2.0, the term 20, the penalty 45.
\* (discrepancy is held times 10 n, the term times n, the penalty times 20 n.)
C9_DiscrepancyTerms ==
    (Scored /\ RatingsInScale) =>
        LET n == sig.n
            D == sig.discrepancy
        IN  /\ D = Abs((4 * sig.T - 10 * n) - sig.S)
            /\ D >= 0 /\ D <= 20 * n
            /\ D <= 6 * n => sig.bot_discrepancy_term = 0
            /\ D > 6 * n => sig.bot_discrepancy_term = Min(20 * n, 5 * (D - 6 * n))
            /\ sig.bot_discrepancy_term <= 20 * n
            /\ D <= 5 * n => sig.discrepancy_penalty = 0
            /\ D > 5 * n => sig.discrepancy_penalty = 60 * (D - 5 * n)
            /\ sig.discrepancy_penalty <= 900 * n
            /\ (sig.T = 5 * n /\ sig.S = -10 * n) =>
                   /\ D = 20 * n
                   /\ sig.bot_discrepancy_term = 20 * n
                   /\ sig.discrepancy_penalty = 900 * n

\* C9 witness: a scored set with avg_rating = 5.0 and avg_sentiment = -1.0.
C9_Witness ==
    /\ Scored
    /\ RatingsInScale
    /\ sig.T = 5 * sig.n
    /\ sig.S = -10 * sig.n

\* C10 as claimed: in every response built on the non-empty-review path the
\* safety_label is the label of the trust_score of the same response.
C10_LabelAgreesWithTrust ==
    (pc = "ap_done" /\ reviews_data # <<>> /\ response.status = 200)
        => response.safety_label = SafetyLabel(response.trust_score)

====
